---------------------------- MODULE Spec2Model ----------------------------
(***************************************************************************)
(* tracvote: VoteSystem (src/tracvote/__init__.py).                        *)
(*                                                                         *)
(* The persisted state is the votes table.  Every caller (a request thread)*)
(* works on its own database connection, obtained with env.get_db_cnx();   *)
(* a connection collects the statements of its open transaction and        *)
(* db.commit() persists them.  Strings are sequences of one-character      *)
(* strings, so that str.strip('/') is computed and not assumed.            *)
(***************************************************************************)
EXTENDS Integers, Sequences, FiniteSets, TLC

\* ------------------------------------------------------------- bounds
\* Longest generic string of the normalisation universe.
MaxLen == 3
\* Number of connections (request threads) that may run concurrently.
NumProcs == 2

Procs == 1..NumProcs

\* ------------------------------------------------------------ strings
Wiki == <<"w","i","k","i">>
WikiStart == <<"w","i","k","i","/","W","i","k","i","S","t","a","r","t">>
Ticket5 == <<"t","i","c","k","e","t","/","5">>

\* The spellings callers pass as resource.
RawResources ==
    { Wiki, <<"/">> \o Wiki \o <<"/">>, WikiStart,
      Ticket5, <<"/">> \o Ticket5 \o <<"/">> }

\* The spellings used by the concurrent specifications.
ConcResources == { Ticket5 }

Users == {"alice", "bob"}

\* vote values handed to set_vote; 2 stands for any value outside -1..1.
VoteInputs == {-1, 0, 1, 2}
ValidVotes == {-1, 0, 1}
ConcVotes == {-1, 0, 1}

\* ---------------------------------------------- normalise_resource
RECURSIVE LStrip(_)
LStrip(s) == IF s # <<>> /\ Head(s) = "/" THEN LStrip(Tail(s)) ELSE s

RECURSIVE RStrip(_)
RStrip(s) ==
    IF s # <<>> /\ s[Len(s)] = "/" THEN RStrip(SubSeq(s, 1, Len(s) - 1)) ELSE s

\* str.strip('/')
Strip(s) == RStrip(LStrip(s))

\* A plausible slip: only the leading slashes are removed.
normalise_resource_lstrip(resource) ==
    LET r == LStrip(resource) IN IF r = Wiki THEN r \o SubSeq(WikiStart, 5, 14) ELSE r

\* normalise_resource, the basestring branch.
normalise_resource(resource) ==
    LET r == Strip(resource) IN IF r = Wiki THEN r \o SubSeq(WikiStart, 5, 14) ELSE r

\* ------------------------------------------------------------- state
VARIABLES
    table,    \* the committed rows of the votes table
    txdel,    \* txdel[p]: rows deleted by p's open transaction
    txins,    \* txins[p]: rows inserted by p's open transaction
    pc,       \* pc[p]: p's position inside set_vote
    call,     \* call[p]: p's running call, or its last finished one
    scen,     \* observer: the pattern the latest finished requests form
    failed    \* observer: the last set_vote that raised, with its key's rows

vars == <<table, txdel, txins, pc, call, scen, failed>>

Row(resource, username, vote) ==
    [resource |-> resource, username |-> username, vote |-> vote]

\* What connection p's statements see: committed rows and its own changes.
Visible(p) == (table \ txdel[p]) \cup txins[p]

Clean(p) == txdel[p] = {} /\ txins[p] = {}

KeyRows(rows, username, resource) ==
    { r \in rows : r.username = username /\ r.resource = resource }

NoCall ==
    [op |-> "none", user |-> "", raw |-> <<>>, resource |-> <<>>, vote |-> 0,
     dir |-> "", perm |-> {}, old |-> 0, status |-> "done", result |-> 0,
     before |-> {}, after |-> {}, sql |-> <<>>]

NoFail == [set |-> FALSE, user |-> "", resource |-> <<>>, old |-> {}, new |-> {}]

Init ==
    /\ table = {}
    /\ txdel = [p \in Procs |-> {}]
    /\ txins = [p \in Procs |-> {}]
    /\ pc = [p \in Procs |-> "idle"]
    /\ call = [p \in Procs |-> NoCall]
    /\ scen = "start"
    /\ failed = NoFail


\* ------------------------------------------------------------ queries
RECURSIVE SumVotes(_)
\* SQL sum(vote) over a set of rows.
SumVotes(rows) ==
    IF rows = {} THEN 0
    ELSE LET r == CHOOSE x \in rows : TRUE IN r.vote + SumVotes(rows \ {r})

\* get_vote_count: SELECT sum(vote) ... WHERE resource=%s; row[0] or 0.
get_vote_count(rows, resource) ==
    LET res == normalise_resource(resource)
        sel == { r \in rows : r.resource = res }
    IN  IF sel = {} THEN 0 ELSE SumVotes(sel)

\* A plausible slip: the WHERE clause forgets the username.
get_vote_any_user(rows, username, resource) ==
    LET sel == { r \in rows : r.resource = normalise_resource(resource) }
    IN  IF sel = {} THEN {0} ELSE { r.vote : r \in sel }

\* get_vote: the values fetchone() may hand back (one row of the matching
\* ones, in no stated order); row and row[0] or 0.
get_vote(rows, username, resource) ==
    LET sel == KeyRows(rows, username, normalise_resource(resource))
    IN  IF sel = {} THEN {0} ELSE { r.vote : r \in sel }

\* ----------------------------------------------------------- set_vote
\* A plausible slip: the DELETE forgets the username.
DeleteWhere_resource_only(r, username, resource) == r.resource = resource

\* DELETE FROM votes WHERE username=%s AND resource = %s
DeleteWhere(r, username, resource) ==
    r.username = username /\ r.resource = resource

\* A plausible slip: `if vote is not None:`.
VoteIsSet_not_none(vote) == TRUE

\* `if vote:`
VoteIsSet(vote) == vote # 0

\* The rows set_vote leaves for its key when it runs alone.
NewRows(c) ==
    IF VoteIsSet(c.vote) THEN {Row(c.resource, c.user, c.vote)} ELSE {}

\* set_vote is entered: the resource is normalised, the connection fetched.
set_vote(p, username, resource, vote) ==
    /\ pc[p] = "idle"
    /\ call' = [call EXCEPT ![p] =
                  [NoCall EXCEPT !.op = "set_vote", !.user = username,
                                 !.raw = resource,
                                 !.resource = normalise_resource(resource),
                                 !.vote = vote, !.status = "running"]]
    /\ pc' = [pc EXCEPT ![p] = "delete"]
    /\ UNCHANGED <<table, txdel, txins, scen, failed>>

\* cursor.execute('DELETE ...')
Delete(p) ==
    /\ pc[p] = "delete"
    /\ LET c == call[p]
           hit == { r \in Visible(p) : DeleteWhere(r, c.user, c.resource) }
       IN  /\ txdel' = [txdel EXCEPT ![p] = @ \cup (hit \cap table)]
           /\ txins' = [txins EXCEPT ![p] = @ \ hit]
           /\ call' = [call EXCEPT ![p].sql = Append(@, "DELETE")]
           /\ pc' = [pc EXCEPT ![p] =
                       IF VoteIsSet(c.vote) THEN "insert" ELSE "commit"]
    /\ UNCHANGED <<table, scen, failed>>

\* The row another open transaction is inserting: the unique index makes
\* the INSERT wait for that transaction to end.
InsertWaits(p, row) == \E q \in Procs \ {p} : row \in txins[q]

\* cursor.execute('INSERT ...'), accepted by the primary key.
Insert(p) ==
    /\ pc[p] = "insert"
    /\ LET c == call[p]
           row == Row(c.resource, c.user, c.vote)
       IN  /\ ~InsertWaits(p, row)
           /\ row \notin Visible(p)
           /\ txins' = [txins EXCEPT ![p] = @ \cup {row}]
           /\ call' = [call EXCEPT ![p].sql = Append(@, "INSERT")]
           /\ pc' = [pc EXCEPT ![p] = "commit"]
    /\ UNCHANGED <<table, txdel, scen, failed>>

\* An exception leaves set_vote: nothing is rolled back, the statements
\* executed so far stay in the connection's open transaction.
Raise(p) ==
    LET c == call[p]
    IN  /\ call' = [call EXCEPT ![p].status = "failed", ![p].before = table,
                                ![p].after = table]
        /\ pc' = [pc EXCEPT ![p] = "idle"]
        /\ failed' = [set |-> TRUE, user |-> c.user, resource |-> c.resource,
                      old |-> KeyRows(table, c.user, c.resource),
                      new |-> NewRows(c)]
        /\ UNCHANGED <<table, txdel, txins, scen>>

\* cursor.execute('INSERT ...') refused by the primary key
\* (resource, username, vote): IntegrityError.
InsertConflict(p) ==
    /\ pc[p] = "insert"
    /\ LET c == call[p]
           row == Row(c.resource, c.user, c.vote)
       IN  ~InsertWaits(p, row) /\ row \in Visible(p)
    /\ Raise(p)

\* Observer of the finished write calls, for the requests of alice and
\* bob on ticket/5.  From the empty table: s1 (alice up), s2 (then bob
\* down), s3 (then alice up).  From any state: up_f / up_s (alice up, her
\* vote before it other than +1 / equal to +1), upup_f / upup_s (two alice
\* ups one after the other, the first of them an up_f / an up_s), up_down
\* (an alice up, then an alice down).
ScenNext(s, c) ==
    LET on5(u, d) == /\ c.op = "process_request" /\ c.user = u /\ c.dir = d
                     /\ c.resource = Ticket5
    IN  IF on5("alice", "up")
        THEN CASE s = "start" -> "s1"
               [] s = "s2" -> "s3"
               [] s \in {"s1", "up_f", "upup_s"} -> "upup_f"
               [] s \in {"s3", "up_s", "upup_f"} -> "upup_s"
               [] OTHER -> IF c.old = 1 THEN "up_s" ELSE "up_f"
        ELSE IF on5("alice", "down")
        THEN IF s \in {"s1", "s3", "up_f", "up_s", "upup_f", "upup_s"}
             THEN "up_down" ELSE "other"
        ELSE IF on5("bob", "down") /\ s = "s1" THEN "s2"
        ELSE "other"

\* db.commit(): the connection's open transaction is persisted.
Commit(p) ==
    /\ pc[p] = "commit"
    /\ table' = (table \ txdel[p]) \cup txins[p]
    /\ txdel' = [txdel EXCEPT ![p] = {}]
    /\ txins' = [txins EXCEPT ![p] = {}]
    /\ call' = [call EXCEPT ![p].status = "done", ![p].before = table,
                            ![p].after = (table \ txdel[p]) \cup txins[p],
                            ![p].sql = Append(@, "COMMIT")]
    /\ pc' = [pc EXCEPT ![p] = "idle"]
    /\ scen' = ScenNext(scen, call[p])
    /\ failed' = IF /\ failed.set /\ failed.user = call[p].user
                    /\ failed.resource = call[p].resource
                 THEN NoFail ELSE failed

\* The storage fails (StorageFailure) at the DELETE or at the INSERT.
FailDelete(p) == pc[p] = "delete" /\ Raise(p)

FailInsert(p) == pc[p] = "insert" /\ Raise(p)

\* A commit that fails persists nothing: the storage drops the transaction.
FailCommit(p) ==
    /\ pc[p] = "commit"
    /\ call' = [call EXCEPT ![p].status = "failed", ![p].before = table,
                            ![p].after = table]
    /\ pc' = [pc EXCEPT ![p] = "idle"]
    /\ txdel' = [txdel EXCEPT ![p] = {}]
    /\ txins' = [txins EXCEPT ![p] = {}]
    /\ failed' = [set |-> TRUE, user |-> call[p].user,
                  resource |-> call[p].resource,
                  old |-> KeyRows(table, call[p].user, call[p].resource),
                  new |-> NewRows(call[p])]
    /\ UNCHANGED <<table, scen>>

\* The thread lets go of its connection: the pool rolls it back.
Release(p) ==
    /\ pc[p] = "idle"
    /\ ~Clean(p)
    /\ txdel' = [txdel EXCEPT ![p] = {}]
    /\ txins' = [txins EXCEPT ![p] = {}]
    /\ UNCHANGED <<table, pc, call, scen, failed>>

\* ------------------------------------------------------- read calls
GetVote(p, username, resource) ==
    /\ pc[p] = "idle"
    /\ \E v \in get_vote(Visible(p), username, resource) :
         call' = [call EXCEPT ![p] =
                    [NoCall EXCEPT !.op = "get_vote", !.user = username,
                                   !.raw = resource,
                                   !.resource = normalise_resource(resource),
                                   !.result = v, !.before = table,
                                   !.after = table, !.sql = <<"SELECT">>]]
    /\ UNCHANGED <<table, txdel, txins, pc, scen, failed>>

GetVoteCount(p, resource) ==
    /\ pc[p] = "idle"
    /\ call' = [call EXCEPT ![p] =
                  [NoCall EXCEPT !.op = "get_vote_count", !.raw = resource,
                                 !.resource = normalise_resource(resource),
                                 !.result = get_vote_count(Visible(p), resource),
                                 !.before = table, !.after = table,
                                 !.sql = <<"SELECT">>]]
    /\ UNCHANGED <<table, txdel, txins, pc, scen, failed>>

\* ------------------------------------------------------ the request
\* path_info, as far as path_match reads it: /vote/<dir>/<rest>.
Paths ==
    [dir : {"up", "down"}, rest : RawResources]
        \cup {[dir |-> "sideways", rest |-> Ticket5]}

Perms == SUBSET {"VOTE_VIEW", "VOTE_MODIFY"}

\* path_match = re.compile(r'/vote/(up|down)/(.*)')
path_match(path) == path.dir \in {"up", "down"}

\* match_request: the framework hands process_request only these requests.
match_request(perm, path) == "VOTE_VIEW" \in perm /\ path_match(path)

\* A plausible slip: the handler asks for the permission match_request
\* has already seen.
PermRequire_view(perm) == "VOTE_VIEW" \in perm

\* req.perm.require('VOTE_MODIFY')
PermRequire(perm) == "VOTE_MODIFY" \in perm

\* vote == 'up' and +1 or -1
Direction(dir) == IF dir = "up" THEN 1 ELSE -1

\* A plausible slip: the vote is stored again instead of being cleared.
NewVote_no_toggle(old_vote, vote) == vote

\* if old_vote == vote: vote = 0
NewVote(old_vote, vote) == IF old_vote = vote THEN 0 ELSE vote

\* process_request, refused: PermissionError leaves before any statement.
process_request_refused(p, username, perm, path) ==
    /\ pc[p] = "idle"
    /\ match_request(perm, path)
    /\ ~PermRequire(perm)
    /\ call' = [call EXCEPT ![p] =
                  [NoCall EXCEPT !.op = "process_request", !.user = username,
                                 !.raw = path.rest, !.dir = path.dir,
                                 !.perm = perm, !.status = "refused",
                                 !.before = table, !.after = table]]
    /\ UNCHANGED <<table, txdel, txins, pc, scen, failed>>

\* process_request up to its call of set_vote: the permission, the
\* normalisation, get_vote, the toggle; set_vote normalises once more.
process_request(p, username, perm, path) ==
    /\ pc[p] = "idle"
    /\ match_request(perm, path)
    /\ PermRequire(perm)
    /\ LET resource == normalise_resource(path.rest)
           vote == Direction(path.dir)
       IN  \E old_vote \in get_vote(Visible(p), username, resource) :
             call' = [call EXCEPT ![p] =
                        [NoCall EXCEPT !.op = "process_request",
                                       !.user = username, !.raw = path.rest,
                                       !.resource = normalise_resource(resource),
                                       !.dir = path.dir, !.perm = perm,
                                       !.old = old_vote,
                                       !.vote = NewVote(old_vote, vote),
                                       !.status = "running",
                                       !.sql = <<"SELECT">>]]
    /\ pc' = [pc EXCEPT ![p] = "delete"]
    /\ UNCHANGED <<table, txdel, txins, scen, failed>>

\* ---------------------------------------------------- specifications
\* The writing calls executed one after another, on one connection, the
\* storage never failing.
Next ==
    \/ \E u \in Users, r \in RawResources, v \in VoteInputs : set_vote(1, u, r, v)
    \/ \E u \in Users, perm \in Perms, path \in Paths :
         process_request_refused(1, u, perm, path)
    \/ \E u \in Users, perm \in Perms, path \in Paths :
         process_request(1, u, perm, path)
    \/ Delete(1)
    \/ Insert(1)
    \/ Commit(1)

Spec == Init /\ [][Next]_vars

\* The rows concurrent callers can have left for ticket/5 (see NextConc):
\* any of them may be stored when a sequence of calls begins.
StoredRows == { Row(Ticket5, u, v) : u \in Users, v \in {-1, 1} }

InitStored ==
    /\ table \in SUBSET StoredRows
    /\ txdel = [p \in Procs |-> {}]
    /\ txins = [p \in Procs |-> {}]
    /\ pc = [p \in Procs |-> "idle"]
    /\ call = [p \in Procs |-> NoCall]
    /\ scen = IF table = {} THEN "start" ELSE "other"
    /\ failed = NoFail

SpecStored == InitStored /\ [][Next]_vars

\* Concurrent callers, each on its own connection; a caller whose call
\* raised lets go of its connection before it calls again.
NextConc ==
    \E p \in Procs :
        \/ \E u \in Users, r \in ConcResources, v \in ConcVotes :
             Clean(p) /\ set_vote(p, u, r, v)
        \/ Delete(p)
        \/ Insert(p)
        \/ InsertConflict(p)
        \/ Commit(p)
        \/ Release(p)
        \/ \E u \in Users, r \in ConcResources : Clean(p) /\ GetVote(p, u, r)
        \/ \E r \in ConcResources : Clean(p) /\ GetVoteCount(p, r)

SpecConc == Init /\ [][NextConc]_vars

\* Calls executed one after another on one connection; the storage may
\* fail at every statement, and the caller may go on using the connection
\* of a call that raised, or let go of it.
NextFail ==
    \/ \E u \in Users, r \in ConcResources, v \in ConcVotes : set_vote(1, u, r, v)
    \/ Delete(1)
    \/ Insert(1)
    \/ Commit(1)
    \/ FailDelete(1)
    \/ FailInsert(1)
    \/ FailCommit(1)
    \/ Release(1)

SpecFail == Init /\ [][NextFail]_vars

\* ================================================== properties
Done(p, op) == pc[p] = "idle" /\ call[p].op = op /\ call[p].status = "done"

OneRowPerKey(rows) ==
    \A r1 \in rows, r2 \in rows :
        (r1.resource = r2.resource /\ r1.username = r2.username) => r1 = r2

\* C1: in every state reached by set_vote and process_request calls run
\* one after another, the votes table (and what the caller's connection
\* sees of it) holds at most one row per (resource, username) and no row
\* whose vote is 0.
C1_OneRowPerKeyNoZero ==
    /\ OneRowPerKey(table) /\ OneRowPerKey(Visible(1))
    /\ \A r \in table \cup Visible(1) : r.vote # 0

\* A vote was replaced by the opposite one while another user's row stands.
C1_Witness ==
    /\ Done(1, "set_vote")
    /\ call[1].vote = -1
    /\ Row(call[1].resource, call[1].user, 1) \in call[1].before
    /\ Cardinality(table) >= 2

\* C3: after a completed set_vote(u, r, v), v in {-1,0,+1}, whatever rows
\* were stored before (two rows of one key included), get_vote(u, r)
\* returns v; with v = 0 no row of (r, u) is left, and when there was none
\* before either the table is unchanged.
C3_GetAfterSet ==
    (Done(1, "set_vote") /\ call[1].vote \in ValidVotes) =>
        LET c == call[1] IN
        /\ get_vote(table, c.user, c.raw) = {c.vote}
        /\ c.vote = 0 => KeyRows(table, c.user, normalise_resource(c.raw)) = {}
        /\ (c.vote = 0 /\ KeyRows(c.before, c.user, normalise_resource(c.raw)) = {})
              => table = c.before

\* A vote was set on a key that had two rows.
C3_Witness ==
    /\ Done(1, "set_vote")
    /\ call[1].vote = 1
    /\ Cardinality(KeyRows(call[1].before, call[1].user, call[1].resource)) = 2

\* The toggle law proper, the up-then-down case and the scenario.
ToggleLaw ==
    /\ Done(1, "process_request") =>
         LET c == call[1] d == Direction(c.dir) IN
         /\ c.old \in get_vote(c.before, c.user, c.raw)
         /\ get_vote(table, c.user, c.raw) = {IF c.old = d THEN 0 ELSE d}
    /\ scen = "up_down" => get_vote(table, "alice", Ticket5) = {-1}
    /\ scen = "s1" => get_vote_count(table, Ticket5) = 1
    /\ scen = "s2" => get_vote_count(table, Ticket5) = 0
    /\ scen = "s3" => get_vote_count(table, Ticket5) = -1

\* C4 as stated: the toggle law, and two 'up' requests one after the other
\* by one user on one resource always end with vote 0.
C4_Original ==
    /\ ToggleLaw
    /\ scen \in {"upup_f", "upup_s"} => get_vote(table, "alice", Ticket5) = {0}

\* C4, amended: the toggle law; two 'up' requests one after the other end
\* with vote 0 when the vote before the first was not +1 (and with +1 when
\* it was); 'up' then 'down' ends with -1; the scenario counts 1, 0, -1.
C4_Toggle ==
    /\ ToggleLaw
    /\ scen = "upup_f" => get_vote(table, "alice", Ticket5) = {0}
    /\ scen = "upup_s" => get_vote(table, "alice", Ticket5) = {1}

\* Alice's second 'up' in a row, the first cast on no vote of hers, has
\* cleared her vote while bob's stands.
C4_Witness ==
    /\ scen = "upup_f"
    /\ Done(1, "process_request")
    /\ get_vote(table, "bob", Ticket5) = {-1}

RECURSIVE GetVoteSums(_, _)
\* The sums of one get_vote(u, r) result per user u of S.
GetVoteSums(S, r) ==
    IF S = {} THEN {0}
    ELSE LET u == CHOOSE x \in S : TRUE
         IN  { v + t : v \in get_vote(table, u, r), t \in GetVoteSums(S \ {u}, r) }

\* C5 as stated: in every reachable state and for every resource,
\* get_vote_count is the sum over the users of what get_vote returns, and
\* 0 when the resource has no row.
C5_CountIsSum ==
    \A r \in RawResources :
        /\ GetVoteSums(Users, r) = {get_vote_count(table, r)}
        /\ (\A x \in table : x.resource # normalise_resource(r)) =>
                get_vote_count(table, r) = 0

\* C6 as stated: a set_vote with a vote outside {-1,0,+1} executes no
\* statement and changes nothing, and no row has a vote outside {-1,+1}.
C6_InvalidVoteRejected ==
    /\ \A r \in table : r.vote \in {-1, 1}
    /\ (call[1].op = "set_vote" /\ call[1].vote \notin ValidVotes) =>
           call[1].sql = <<>> /\ pc[1] = "idle" /\ call[1].status # "done"

\* C7: a process_request of a caller without VOTE_MODIFY is refused; it
\* executes no statement and leaves the table as it was.
C7_RefusedBeforeStore ==
    (call[1].op = "process_request" /\ "VOTE_MODIFY" \notin call[1].perm) =>
        /\ call[1].status = "refused"
        /\ pc[1] = "idle"
        /\ call[1].sql = <<>>
        /\ table = call[1].before

\* A request was refused while the caller has a vote an 'up' would change.
C7_Witness ==
    /\ call[1].op = "process_request"
    /\ call[1].status = "refused"
    /\ call[1].perm = {"VOTE_VIEW"}
    /\ call[1].dir = "up"
    /\ get_vote(table, call[1].user, call[1].raw) = {-1}

\* Strings up to MaxLen over a slash and a letter, and the named spellings.
Universe ==
    UNION { [1..k -> {"/", "a"}] : k \in 0..MaxLen }
        \cup RawResources \cup { <<"/">> \o Wiki }

SlashRuns == { [i \in 1..k |-> "/"] : k \in 0..MaxLen }

\* s1 and s2 differ only in leading or trailing slashes: slashes added
\* around each make them equal.
SamePath(s1, s2) ==
    \E a \in SlashRuns, b \in SlashRuns, c \in SlashRuns, d \in SlashRuns :
        a \o s1 \o b = c \o s2 \o d

\* The spellings of the start page.
IsStart(s) == SamePath(s, Wiki) \/ SamePath(s, WikiStart)

\* For each spelling, the spellings of the same resource.
SameResource ==
    [ s1 \in RawResources |->
        { s2 \in RawResources :
            SamePath(s1, s2) \/ (IsStart(s1) /\ IsStart(s2)) } ]

NormaliseLaw ==
    /\ \A s1 \in Universe, s2 \in Universe :
         SamePath(s1, s2) => normalise_resource(s1) = normalise_resource(s2)
    /\ normalise_resource(<<"/">> \o Wiki \o <<"/">>) = WikiStart
    /\ normalise_resource(Wiki) = WikiStart
    /\ normalise_resource(<<"/">> \o Wiki) = WikiStart
    /\ \A s \in Universe :
         normalise_resource(normalise_resource(s)) = normalise_resource(s)

\* C9: spellings that differ only in leading or trailing slashes normalise
\* to one string, '/wiki/', 'wiki' and '/wiki' to 'wiki/WikiStart', and
\* normalising twice is normalising once; a vote set under one spelling is
\* what get_vote and get_vote_count find under every other spelling of the
\* resource, in one row.
C9_SpellingsCollide ==
    /\ NormaliseLaw
    /\ Done(1, "set_vote") =>
         LET c == call[1] IN
         \A s2 \in SameResource[c.raw] :
             /\ get_vote(table, c.user, s2) = {c.vote}
             /\ get_vote_count(table, s2) = get_vote_count(table, c.raw)
             /\ Cardinality(KeyRows(table, c.user, normalise_resource(c.raw))
                      \cup KeyRows(table, c.user, normalise_resource(s2)))
                   = IF VoteIsSet(c.vote) THEN 1 ELSE 0

\* A vote set as '/wiki/' replaced the one stored as 'wiki/WikiStart'.
C9_Witness ==
    /\ Done(1, "set_vote")
    /\ call[1].raw = <<"/">> \o Wiki \o <<"/">>
    /\ call[1].vote = 1
    /\ Row(WikiStart, call[1].user, -1) \in call[1].before

C2_OneTerminalRow ==
    \A p \in Procs, q \in Procs :
        ( /\ p # q /\ Done(p, "set_vote") /\ Done(q, "set_vote")
          /\ call[p].user = call[q].user /\ call[p].resource = call[q].resource
          /\ call[p].vote # call[q].vote ) =>
            /\ Cardinality(KeyRows(table, call[p].user, call[p].resource)) <= 1
            /\ KeyRows(table, call[p].user, call[p].resource)
                  \in {NewRows(call[p]), NewRows(call[q])}

\* C8 as stated: after a set_vote that raised, and until a later set_vote
\* for the same key commits, the persisted rows of the key are those from
\* before the call or those of the call applied whole.
C8_AllOrNothing ==
    failed.set =>
        KeyRows(table, failed.user, failed.resource) \in {failed.old, failed.new}

=============================================================================
